---- MODULE Spec2Model ----
(***************************************************************************)
(* Library API: booking lifecycle (Borrow / Return / overdue sweep) and    *)
(* the optimistic-locking update of books, over one relational store.      *)
(*                                                                         *)
(* Every SQL statement is one atomic step.  A request is a process that    *)
(* walks through the store calls of its service method; other requests,    *)
(* the sweep, deletes and the clock interleave between two store calls.    *)
(* A store call may fail for a reason other than "no rows" (deadline,      *)
(* connection): the step then takes the code's err != nil branch.          *)
(***************************************************************************)
EXTENDS Integers, FiniteSets, Sequences, TLC

VARIABLES
    users,        \* ids of the rows of table users
    nextUser,     \* the next fresh user id (uuid)
    books,        \* table books: id -> [version, isbn]
    nextBook,     \* the next fresh book id (gen_random_uuid)
    bookings,     \* table bookings: id -> row
    nextBooking,  \* the next fresh booking id (uuid.New)
    now,          \* the clock read by time.Now() and NOW()
    proc,         \* the requests in progress and their last responses
    faults,       \* number of store calls that have failed so far
    okUpdates,    \* per book, the number of Update calls that returned nil error
    limits,       \* RateLimiter.limits: client -> [tokens, lastCheck]
    calls         \* per client, the Allow calls of its latest instant and the last answer

vars == <<users, nextUser, books, nextBook, bookings, nextBooking, now, proc, faults, okUpdates,
          limits, calls>>

(* ---------------------------- bounds ---------------------------------- *)
NumProcs == 2
MaxUsers == 1
MaxBooks == 1
MaxBookings == 2
MaxVersion == 3
MaxTime == 3
MaxFaults == 1
MaxClients == 2
RpsLimit == 2

Procs == 1..NumProcs
UserIds == 1..MaxUsers
BookIds == 1..MaxBooks
BookingIds == 1..MaxBookings
\* the authenticated callers: the users, and one more account that holds a
\* valid token and borrows nothing
Callers == 1..(MaxUsers + 1)
\* r.RemoteAddr
Clients == 1..MaxClients
DaysInputs == {0, 1, 30, 31}
Isbns == {1, 2}
CallerVersions == {0, 7}
\* a query value as the request supplies it: absent, not a number, or a number
NoQuery == [kind |-> "absent", val |-> 0]
RawInputs ==
    {NoQuery, [kind |-> "text", val |-> 0]}
        \cup {[kind |-> "int", val |-> n] : n \in {-1, 0, 1, 100, 101}}

(* ---------------------- constants of the program ---------------------- *)
MinBorrowDays == 1
MaxBorrowDays == 30
InitialVersion == 1
NoTime == 0
DefaultLimit == 20
\* float64 tokens are counted in halves, and the clock steps by the time in
\* which half a token is refilled
TokenScale == 2
TicksPerSecond == RpsLimit * TokenScale
StatusTooManyRequests == 429
MaxLimit == 100

ACTIVE == "ACTIVE"
RETURNED == "RETURNED"
OVERDUE == "OVERDUE"

OK == "ok"
ErrUserNotFound == "user not found"
ErrBookNotFound == "book not found"
ErrActiveExists == "you already have an active booking for this book"
ErrBorrowDays == "borrow days must be between 1 and 30"
ErrBookingNotFound == "booking not found"
ErrAlreadyReturned == "book already returned"
ErrConflict == "conflict: book was modified by another request"
ErrStore == "store error"
\* the handler's validation message (400, before the service is called)
ErrValidation == "borrow_days must be between 1 and 30"
\* the error kind of the book service and the repository message it looks for
ServiceErrConflict == "conflict"
StaleVersionMsg == "conflict: stale version or not found"

ErrForbidden == "Forbidden"
MsgBookingNotFound == "Booking not found"
ErrLimit == "limit must be between 1 and 100"
ErrOffset == "offset must be >= 0"

StatusOK == 200
StatusNoContent == 204
StatusConflict == 409
StatusInternalServerError == 500

(* --------------------------- store queries ---------------------------- *)
GetActive_AnyStatus(bk, u, b) ==
    {i \in DOMAIN bk : bk[i].user = u /\ bk[i].book = b}

GetActive_Unreturned(bk, u, b) ==
    {i \in DOMAIN bk : bk[i].user = u /\ bk[i].book = b /\ bk[i].status # RETURNED}

\* SELECT ... FROM bookings WHERE user_id=$1 AND book_id=$2 AND status='ACTIVE'
GetActive(bk, u, b) ==
    {i \in DOMAIN bk : bk[i].user = u /\ bk[i].book = b /\ bk[i].status = ACTIVE}

OverdueRows_AnyStatus(bk, t) ==
    {i \in DOMAIN bk : bk[i].due < t}

OverdueRows_NotStrict(bk, t) ==
    {i \in DOMAIN bk : bk[i].status = ACTIVE /\ bk[i].due <= t}

OverdueRows_NotOverdue(bk, t) ==
    {i \in DOMAIN bk : bk[i].status # OVERDUE /\ bk[i].due < t}

OverdueRows_Later(bk, t) ==
    {i \in DOMAIN bk : bk[i].status = ACTIVE /\ bk[i].due + 1 < t}

\* the rows MarkOverdue's WHERE clause selects
OverdueRows(bk, t) ==
    {i \in DOMAIN bk : bk[i].status = ACTIVE /\ bk[i].due < t}

MarkOverdue_Advance(bk, t) ==
    [i \in DOMAIN bk |->
        IF bk[i].due < t /\ bk[i].status = ACTIVE THEN [bk[i] EXCEPT !.status = OVERDUE]
        ELSE IF bk[i].due < t /\ bk[i].status = OVERDUE
        THEN [bk[i] EXCEPT !.status = RETURNED, !.returned = t]
        ELSE bk[i]]

MarkOverdue_Purge(bk, t) ==
    [i \in DOMAIN bk \ OverdueRows(bk, t) |-> bk[i]]

\* UPDATE bookings SET status='OVERDUE' WHERE status='ACTIVE' AND due_date < NOW()
MarkOverdue(bk, t) ==
    [i \in DOMAIN bk |->
        IF i \in OverdueRows(bk, t) THEN [bk[i] EXCEPT !.status = OVERDUE] ELSE bk[i]]

BookUpdateRows_NoVersion(bs, id, ver) ==
    IF id \in DOMAIN bs THEN {id} ELSE {}

\* the rows the conditional UPDATE of books matches: WHERE id=$7 AND version=$8
BookUpdateRows(bs, id, ver) ==
    IF id \in DOMAIN bs /\ bs[id].version = ver THEN {id} ELSE {}

\* isbn TEXT UNIQUE
IsbnTaken(bs, id, isbn) ==
    \E j \in DOMAIN bs : j # id /\ bs[j].isbn = isbn

BookingUpdateRows_NoWhere(bk, id) ==
    IF id \in DOMAIN bk THEN DOMAIN bk ELSE {}

\* the rows the UPDATE of bookings matches: WHERE id=$n
BookingUpdateRows(bk, id) ==
    IF id \in DOMAIN bk THEN {id} ELSE {}

\* REFERENCES users(id) ON DELETE CASCADE, REFERENCES books(id) ON DELETE CASCADE
Cascade(bk, us, bs) ==
    [i \in {j \in DOMAIN bk : bk[j].user \in us /\ bk[j].book \in DOMAIN bs} |-> bk[i]]

BorrowDaysRejected_UpperOnly(d) == d > MaxBorrowDays

\* if req.BorrowDays < 1 || req.BorrowDays > 30 { return error }
BorrowDaysRejected(d) == d < MinBorrowDays \/ d > MaxBorrowDays

NewBooking_NoStatus(u, b, at, due) ==
    [user |-> u, book |-> b, borrowed |-> at, due |-> due,
     returned |-> NoTime, status |-> ""]

\* booking := &model.Booking{UserID, BookID, BorrowedAt, DueDate, Status: "ACTIVE"}
NewBooking(u, b, at, due) ==
    [user |-> u, book |-> b, borrowed |-> at, due |-> due,
     returned |-> NoTime, status |-> ACTIVE]

ReturnRejected_NotActive(status) == status # ACTIVE

ReturnRejected_Never(status) == FALSE

\* if booking.Status == "RETURNED" { return error }
ReturnRejected(status) == status = RETURNED

(* ------------------------------ state --------------------------------- *)
\* a request slot: pc is the store call the request is about to make; an idle
\* slot keeps the response of its last request (op, res, fault and its ids)
IdleProc ==
    [pc |-> "idle", op |-> "", user |-> 0, book |-> 0, days |-> 0, bid |-> 0,
     seen |-> 0, ver |-> 0, newVer |-> 0, isbn |-> 0, at |-> NoTime,
     rawLimit |-> NoQuery, rawOffset |-> NoQuery, limit |-> 0, offset |-> 0,
     res |-> "", fault |-> FALSE]

Init ==
    /\ users = {}
    /\ nextUser = 1
    /\ books = << >>
    /\ nextBook = 1
    /\ bookings = << >>
    /\ nextBooking = 1
    /\ now = 1
    /\ proc = [p \in Procs |-> IdleProc]
    /\ faults = 0
    /\ okUpdates = [b \in BookIds |-> 0]
    /\ limits = << >>
    /\ calls = << >>

\* a store call can fail while the budget of failures lasts
MayFail(f) == f => faults < MaxFaults

Count(f) == IF f THEN 1 ELSE 0

\* the response of a request: the slot is idle again and shows the result
\* (an Update's response also shows the book and the versions it read, a
\* Return's or GetBooking's response the caller and the booking named, a
\* Borrow's response its request)
Finish(r, result) ==
    IF r.op = "Update"
    THEN [IdleProc EXCEPT !.op = r.op, !.res = result, !.book = r.book,
                          !.seen = r.seen, !.ver = r.ver]
    ELSE IF r.op = "Return"
    THEN [IdleProc EXCEPT !.op = r.op, !.res = result, !.bid = r.bid, !.user = r.user]
    ELSE IF r.op = "GetBooking"
    THEN [IdleProc EXCEPT !.op = r.op, !.res = result, !.bid = r.bid, !.user = r.user,
                          !.book = IF result = OK THEN r.book ELSE 0]
    ELSE IF r.op = "Borrow"
    THEN [IdleProc EXCEPT !.op = r.op, !.res = result, !.user = r.user,
                          !.book = r.book, !.days = r.days]
    ELSE [IdleProc EXCEPT !.op = r.op, !.res = result]

InFlightBorrows == Cardinality({p \in Procs : proc[p].op = "Borrow" /\ proc[p].pc # "idle"})

(* ------------------------ environment actions ------------------------- *)
Tick ==
    /\ now < MaxTime
    /\ now' = now + 1
    /\ UNCHANGED <<users, nextUser, books, nextBook, bookings, nextBooking, proc, faults, okUpdates, limits, calls>>

\* pgUserRepo.Create
CreateUser ==
    /\ nextUser <= MaxUsers
    /\ users' = users \cup {nextUser}
    /\ nextUser' = nextUser + 1
    /\ UNCHANGED <<books, nextBook, bookings, nextBooking, now, proc, faults, okUpdates, limits, calls>>

\* pgUserRepo.Delete
DeleteUser(u) ==
    /\ u \in users
    /\ users' = users \ {u}
    /\ bookings' = Cascade(bookings, users', books)
    /\ UNCHANGED <<nextUser, books, nextBook, nextBooking, now, proc, faults, okUpdates, limits, calls>>

\* an isbn no book has had so far (the booking engine never reads it)
FreshIsbn == nextBook

\* pgBookRepo.Create: the version column is the literal 1, not b.Version
CreateBook(isbn, callerVersion) ==
    /\ nextBook <= MaxBooks
    /\ ~IsbnTaken(books, nextBook, isbn)
    /\ books' = books @@ (nextBook :> [version |-> InitialVersion, isbn |-> isbn])
    /\ nextBook' = nextBook + 1
    /\ UNCHANGED <<users, nextUser, bookings, nextBooking, now, proc, faults, okUpdates, limits, calls>>

DeleteBook_Versioned(b) ==
    /\ b \in DOMAIN books
    /\ books[b].version = InitialVersion
    /\ books' = [i \in DOMAIN books \ {b} |-> books[i]]
    /\ bookings' = Cascade(bookings, users, books')
    /\ UNCHANGED <<users, nextUser, nextBook, nextBooking, now, proc, faults, okUpdates, limits, calls>>

\* pgBookRepo.Delete
DeleteBook(b) ==
    /\ b \in DOMAIN books
    /\ books' = [i \in DOMAIN books \ {b} |-> books[i]]
    /\ bookings' = Cascade(bookings, users, books')
    /\ UNCHANGED <<users, nextUser, nextBook, nextBooking, now, proc, faults, okUpdates, limits, calls>>

\* bookingService.UpdateOverdue -> pgBookingRepo.MarkOverdue
UpdateOverdue ==
    /\ bookings' = MarkOverdue(bookings, now)
    /\ UNCHANGED <<users, nextUser, books, nextBook, nextBooking, now, proc, faults, okUpdates, limits, calls>>

(* ------------------------------ Borrow -------------------------------- *)
\* BookingHandler.Borrow: borrow_days outside 1..30 is answered with 400 and
\* h.bookingSvc.Borrow is not called
HandlerBorrowRejected(p, u, b, d) ==
    /\ proc[p].pc = "idle"
    /\ BorrowDaysRejected(d)
    /\ proc' = [proc EXCEPT ![p] =
                  Finish([IdleProc EXCEPT !.op = "Borrow", !.user = u, !.book = b,
                                          !.days = d], ErrValidation)]
    /\ UNCHANGED <<users, nextUser, books, nextBook, bookings, nextBooking, now, faults, okUpdates, limits, calls>>

\* s.userRepo.GetByID
BorrowUser(p, u, b, d, f) ==
    /\ MayFail(f)
    /\ proc[p].pc = "idle"
    /\ nextBooking + InFlightBorrows <= MaxBookings
    /\ LET r == [IdleProc EXCEPT !.op = "Borrow", !.user = u, !.book = b,
                                 !.days = d, !.fault = f]
       IN proc' = [proc EXCEPT ![p] =
                     IF f \/ u \notin users
                     THEN Finish(r, ErrUserNotFound)
                     ELSE [r EXCEPT !.pc = "b_book"]]
    /\ faults' = faults + Count(f)
    /\ UNCHANGED <<users, nextUser, books, nextBook, bookings, nextBooking, now, okUpdates, limits, calls>>

\* s.bookRepo.GetByID
BorrowBook(p, f) ==
    /\ MayFail(f)
    /\ proc[p].pc = "b_book"
    /\ LET r == [proc[p] EXCEPT !.fault = @ \/ f]
       IN proc' = [proc EXCEPT ![p] =
                     IF f \/ r.book \notin DOMAIN books
                     THEN Finish(r, ErrBookNotFound)
                     ELSE [r EXCEPT !.pc = "b_active"]]
    /\ faults' = faults + Count(f)
    /\ UNCHANGED <<users, nextUser, books, nextBook, bookings, nextBooking, now, okUpdates, limits, calls>>

\* active, _ := s.bookingRepo.GetActive; the days check; BorrowedAt: time.Now()
BorrowActive(p, f) ==
    /\ MayFail(f)
    /\ proc[p].pc = "b_active"
    /\ LET r == [proc[p] EXCEPT !.fault = @ \/ f]
           active == IF f THEN {} ELSE GetActive(bookings, r.user, r.book)
       IN proc' = [proc EXCEPT ![p] =
                     IF active # {} THEN Finish(r, ErrActiveExists)
                     ELSE IF BorrowDaysRejected(r.days) THEN Finish(r, ErrBorrowDays)
                     ELSE [r EXCEPT !.pc = "b_create", !.at = now]]
    /\ faults' = faults + Count(f)
    /\ UNCHANGED <<users, nextUser, books, nextBook, bookings, nextBooking, now, okUpdates, limits, calls>>

\* DueDate: time.Now().AddDate(0, 0, days); s.bookingRepo.Create
BorrowCreate(p, f) ==
    /\ MayFail(f)
    /\ proc[p].pc = "b_create"
    /\ LET r == [proc[p] EXCEPT !.fault = @ \/ f]
           fk == r.user \in users /\ r.book \in DOMAIN books
           row == NewBooking(r.user, r.book, r.at, now + r.days)
       IN IF f \/ ~fk
          THEN /\ proc' = [proc EXCEPT ![p] = Finish(r, ErrStore)]
               /\ UNCHANGED <<bookings, nextBooking, limits, calls>>
          ELSE /\ bookings' = bookings @@ (nextBooking :> row)
               /\ nextBooking' = nextBooking + 1
               /\ proc' = [proc EXCEPT ![p] = Finish(r, OK)]
    /\ faults' = faults + Count(f)
    /\ UNCHANGED <<users, nextUser, books, nextBook, now, okUpdates, limits, calls>>

(* ------------------------------ Return -------------------------------- *)
ReturnGet_OwnerOnly(p, c, id, f) ==
    /\ MayFail(f)
    /\ proc[p].pc = "idle"
    /\ LET r == [IdleProc EXCEPT !.op = "Return", !.user = c, !.bid = id, !.fault = f]
       IN proc' = [proc EXCEPT ![p] =
                     IF f \/ id \notin DOMAIN bookings
                     THEN Finish(r, ErrBookingNotFound)
                     ELSE IF bookings[id].user # c
                     THEN Finish(r, ErrForbidden)
                     ELSE IF ReturnRejected(bookings[id].status)
                     THEN Finish(r, ErrAlreadyReturned)
                     ELSE [r EXCEPT !.pc = "r_update", !.at = now]]
    /\ faults' = faults + Count(f)
    /\ UNCHANGED <<users, nextUser, books, nextBook, bookings, nextBooking, now, okUpdates, limits, calls>>

\* BookingHandler.Return for the authenticated caller c (its userID is only
\* tested for ""); s.bookingRepo.GetByID; the status check; now := time.Now()
ReturnGet(p, c, id, f) ==
    /\ MayFail(f)
    /\ proc[p].pc = "idle"
    /\ LET r == [IdleProc EXCEPT !.op = "Return", !.user = c, !.bid = id, !.fault = f]
       IN proc' = [proc EXCEPT ![p] =
                     IF f \/ id \notin DOMAIN bookings
                     THEN Finish(r, ErrBookingNotFound)
                     ELSE IF ReturnRejected(bookings[id].status)
                     THEN Finish(r, ErrAlreadyReturned)
                     ELSE [r EXCEPT !.pc = "r_update", !.at = now]]
    /\ faults' = faults + Count(f)
    /\ UNCHANGED <<users, nextUser, books, nextBook, bookings, nextBooking, now, okUpdates, limits, calls>>

\* s.bookingRepo.Update(ctx, bookingID, {returned_at, status})
ReturnUpdate(p, f) ==
    /\ MayFail(f)
    /\ proc[p].pc = "r_update"
    /\ LET r == [proc[p] EXCEPT !.fault = @ \/ f]
           rows == IF f THEN {} ELSE BookingUpdateRows(bookings, r.bid)
       IN IF rows = {}
          THEN /\ proc' = [proc EXCEPT ![p] = Finish(r, ErrStore)]
               /\ UNCHANGED bookings
          ELSE /\ bookings' = [i \in DOMAIN bookings |->
                                 IF i \in rows
                                 THEN [bookings[i] EXCEPT !.returned = r.at,
                                                          !.status = RETURNED]
                                 ELSE bookings[i]]
               /\ proc' = [proc EXCEPT ![p] = Finish(r, OK)]
    /\ faults' = faults + Count(f)
    /\ UNCHANGED <<users, nextUser, books, nextBook, nextBooking, now, okUpdates, limits, calls>>

(* ----------------------------- GetBooking ----------------------------- *)
GetBooking_NoOwnerCheck(p, c, id, f) ==
    /\ MayFail(f)
    /\ proc[p].pc = "idle"
    /\ LET r == [IdleProc EXCEPT !.op = "GetBooking", !.user = c, !.bid = id, !.fault = f]
       IN proc' = [proc EXCEPT ![p] =
                     IF f \/ id \notin DOMAIN bookings
                     THEN Finish(r, MsgBookingNotFound)
                     ELSE Finish([r EXCEPT !.book = bookings[id].book], OK)]
    /\ faults' = faults + Count(f)
    /\ UNCHANGED <<users, nextUser, books, nextBook, bookings, nextBooking, now, okUpdates, limits, calls>>

\* BookingHandler.GetBooking for the authenticated caller c: any error of
\* GetByID -> 404; booking.UserID != userID -> 403; else the booking is encoded
GetBooking(p, c, id, f) ==
    /\ MayFail(f)
    /\ proc[p].pc = "idle"
    /\ LET r == [IdleProc EXCEPT !.op = "GetBooking", !.user = c, !.bid = id, !.fault = f]
       IN proc' = [proc EXCEPT ![p] =
                     IF f \/ id \notin DOMAIN bookings
                     THEN Finish(r, MsgBookingNotFound)
                     ELSE IF bookings[id].user # c
                     THEN Finish(r, ErrForbidden)
                     ELSE Finish([r EXCEPT !.book = bookings[id].book], OK)]
    /\ faults' = faults + Count(f)
    /\ UNCHANGED <<users, nextUser, books, nextBook, bookings, nextBooking, now, okUpdates, limits, calls>>

(* ---------------------------- book Update ----------------------------- *)
\* the caller reads the book first: BookHandler.Get -> pgBookRepo.GetByID
GetBook(p, b, f) ==
    /\ MayFail(f)
    /\ proc[p].pc = "idle"
    /\ LET r == [IdleProc EXCEPT !.op = "Get", !.book = b, !.fault = f]
       IN proc' = [proc EXCEPT ![p] =
                     IF f \/ b \notin DOMAIN books
                     THEN Finish(r, ErrStore)
                     ELSE [r EXCEPT !.pc = "got", !.seen = books[b].version]]
    /\ faults' = faults + Count(f)
    /\ UNCHANGED <<users, nextUser, books, nextBook, bookings, nextBooking, now, okUpdates, limits, calls>>

UpdateRead_MissingIsConflict(p, b, isbn, f) ==
    /\ MayFail(f)
    /\ IF proc[p].pc = "got" THEN proc[p].book = b ELSE proc[p].pc = "idle"
    /\ b \in DOMAIN books => books[b].version < MaxVersion
    /\ LET r == [IdleProc EXCEPT !.op = "Update", !.book = b, !.isbn = isbn,
                                 !.seen = IF proc[p].pc = "got" THEN proc[p].seen ELSE 0,
                                 !.fault = f]
       IN proc' = [proc EXCEPT ![p] =
                     IF f \/ b \notin DOMAIN books
                     THEN Finish(r, ErrConflict)
                     ELSE [r EXCEPT !.pc = "u_write", !.ver = books[b].version,
                                    !.newVer = books[b].version + 1]]
    /\ faults' = faults + Count(f)
    /\ UNCHANGED <<users, nextUser, books, nextBook, bookings, nextBooking, now, okUpdates, limits, calls>>

\* Step 1: SELECT id, version FROM books WHERE id=$1; Step 2: newVersion
UpdateRead(p, b, isbn, f) ==
    /\ MayFail(f)
    /\ IF proc[p].pc = "got" THEN proc[p].book = b ELSE proc[p].pc = "idle"
    /\ b \in DOMAIN books => books[b].version < MaxVersion
    /\ LET r == [IdleProc EXCEPT !.op = "Update", !.book = b, !.isbn = isbn,
                                 !.seen = IF proc[p].pc = "got" THEN proc[p].seen ELSE 0,
                                 !.fault = f]
       IN proc' = [proc EXCEPT ![p] =
                     IF f \/ b \notin DOMAIN books
                     THEN Finish(r, ErrBookNotFound)
                     ELSE [r EXCEPT !.pc = "u_write", !.ver = books[b].version,
                                    !.newVer = books[b].version + 1]]
    /\ faults' = faults + Count(f)
    /\ UNCHANGED <<users, nextUser, books, nextBook, bookings, nextBooking, now, okUpdates, limits, calls>>

UpdateWrite_Retry(p, f) ==
    /\ MayFail(f)
    /\ proc[p].pc = "u_write"
    /\ LET execErr == f \/ IsbnTaken(books, proc[p].book, proc[p].isbn)
           r == [proc[p] EXCEPT !.fault = @ \/ execErr]
           rows == IF execErr THEN {} ELSE BookUpdateRows(books, r.book, r.ver)
       IN IF rows = {}
          THEN /\ proc' = [proc EXCEPT ![p] =
                             IF r.book \in DOMAIN books /\ ~execErr
                             THEN [r EXCEPT !.ver = books[r.book].version,
                                            !.newVer = books[r.book].version + 1]
                             ELSE Finish(r, ErrConflict)]
               /\ UNCHANGED books
          ELSE /\ books' = [books EXCEPT ![r.book] =
                              [version |-> r.newVer, isbn |-> r.isbn]]
               /\ proc' = [proc EXCEPT ![p] = [r EXCEPT !.pc = "u_reread"]]
    /\ faults' = faults + Count(f)
    /\ UNCHANGED <<users, nextUser, nextBook, bookings, nextBooking, now, okUpdates, limits, calls>>

\* Step 3: the conditional UPDATE; its err is dropped, only RowsAffected is read
UpdateWrite(p, f) ==
    /\ MayFail(f)
    /\ proc[p].pc = "u_write"
    /\ LET execErr == f \/ IsbnTaken(books, proc[p].book, proc[p].isbn)
           r == [proc[p] EXCEPT !.fault = @ \/ execErr]
           rows == IF execErr THEN {} ELSE BookUpdateRows(books, r.book, r.ver)
       IN IF rows = {}
          THEN /\ proc' = [proc EXCEPT ![p] = Finish(r, ErrConflict)]
               /\ UNCHANGED books
          ELSE /\ books' = [books EXCEPT ![r.book] =
                              [version |-> r.newVer, isbn |-> r.isbn]]
               /\ proc' = [proc EXCEPT ![p] = [r EXCEPT !.pc = "u_reread"]]
    /\ faults' = faults + Count(f)
    /\ UNCHANGED <<users, nextUser, nextBook, bookings, nextBooking, now, okUpdates, limits, calls>>

\* book, err := r.GetByID(ctx, id); return &book, nil
UpdateReread(p, f) ==
    /\ MayFail(f)
    /\ proc[p].pc = "u_reread"
    /\ LET r == [proc[p] EXCEPT !.fault = @ \/ f]
           found == ~f /\ r.book \in DOMAIN books
       IN /\ proc' = [proc EXCEPT ![p] =
                        IF found THEN Finish(r, OK) ELSE Finish(r, ErrStore)]
          /\ okUpdates' = IF found THEN [okUpdates EXCEPT ![r.book] = @ + 1]
                          ELSE okUpdates
    /\ faults' = faults + Count(f)
    /\ UNCHANGED <<users, nextUser, books, nextBook, bookings, nextBooking, now, limits, calls>>

(* ------------------- the layers above pgBookRepo ---------------------- *)
\* bookServiceImpl.Update: a repository error is turned into ErrConflict only
\* when its message is exactly the stale-version message
BookServiceUpdate(err) ==
    IF err = OK THEN OK
    ELSE IF err = StaleVersionMsg THEN ServiceErrConflict
    ELSE err

\* the messages of the program that contain the word "conflict"
ContainsConflict(err) == err \in {ErrConflict, ServiceErrConflict, StaleVersionMsg}

\* BookHandler.Update: strings.Contains(err.Error(), "conflict") -> 409, else 500
BookHandlerUpdate(err) ==
    IF err = OK THEN StatusOK
    ELSE IF ContainsConflict(err) THEN StatusConflict
    ELSE StatusInternalServerError

\* pgBookRepo.Delete returns the error of the DELETE statement only: the
\* number of rows it removed is not read
BookRepoDelete(bs, id, execFails) == IF execFails THEN ErrStore ELSE OK

\* BookHandler.Delete: err != nil -> 500, else 204
BookHandlerDelete(err) ==
    IF err = OK THEN StatusNoContent ELSE StatusInternalServerError

(* --------------------------- list handlers ---------------------------- *)
ParsedLimit_NoUpper(raw) ==
    IF raw.kind = "int" /\ raw.val > 0 THEN raw.val ELSE DefaultLimit

\* limit := 20; if parsed, err := strconv.Atoi(l); err == nil && parsed > 0 &&
\* parsed <= 100 { limit = parsed }
ParsedLimit(raw) ==
    IF raw.kind = "int" /\ raw.val > 0 /\ raw.val <= MaxLimit THEN raw.val
    ELSE DefaultLimit

\* offset := 0; if parsed, err := strconv.Atoi(o); err == nil && parsed >= 0
ParsedOffset(raw) ==
    IF raw.kind = "int" /\ raw.val >= 0 THEN raw.val ELSE 0

\* BookHandler.List: v != "" and (err != nil || i < 1 || i > 100) -> 400
LimitRejected(raw) ==
    raw.kind # "absent" /\ (raw.kind # "int" \/ raw.val < 1 \/ raw.val > MaxLimit)

\* BookHandler.List: v != "" and (err != nil || i < 0) -> 400
OffsetRejected(raw) ==
    raw.kind # "absent" /\ (raw.kind # "int" \/ raw.val < 0)

\* the request as the slot shows it after the handler has answered
Listed(op, l, o, limit, offset, result) ==
    [IdleProc EXCEPT !.op = op, !.rawLimit = l, !.rawOffset = o,
                     !.limit = limit, !.offset = offset, !.res = result]

\* BookHandler.List -> h.svc.List(ctx, limit, offset)
BookList(p, l, o) ==
    /\ proc[p].pc = "idle"
    /\ proc' = [proc EXCEPT ![p] =
                  IF LimitRejected(l) THEN Listed("BookList", l, o, 0, 0, ErrLimit)
                  ELSE IF OffsetRejected(o) THEN Listed("BookList", l, o, 0, 0, ErrOffset)
                  ELSE Listed("BookList", l, o,
                              IF l.kind = "absent" THEN DefaultLimit ELSE l.val,
                              IF o.kind = "absent" THEN 0 ELSE o.val, OK)]
    /\ UNCHANGED <<users, nextUser, books, nextBook, bookings, nextBooking, now, faults, okUpdates, limits, calls>>

\* BookingHandler.GetMyBookings -> h.bookingSvc.GetByUser(ctx, userID, limit, offset)
GetMyBookings(p, l, o) ==
    /\ proc[p].pc = "idle"
    /\ proc' = [proc EXCEPT ![p] =
                  Listed("GetMyBookings", l, o, ParsedLimit(l), ParsedOffset(o), OK)]
    /\ UNCHANGED <<users, nextUser, books, nextBook, bookings, nextBooking, now, faults, okUpdates, limits, calls>>

\* BookingHandler.ListAllBookings -> h.bookingSvc.List(ctx, limit, offset)
ListAllBookings(p, l, o) ==
    /\ proc[p].pc = "idle"
    /\ proc' = [proc EXCEPT ![p] =
                  Listed("ListAllBookings", l, o, ParsedLimit(l), ParsedOffset(o), OK)]
    /\ UNCHANGED <<users, nextUser, books, nextBook, bookings, nextBooking, now, faults, okUpdates, limits, calls>>

\* UserHandler.ListUsers -> h.userSvc.List(ctx, limit, offset)
ListUsers(p, l, o) ==
    /\ proc[p].pc = "idle"
    /\ proc' = [proc EXCEPT ![p] =
                  Listed("ListUsers", l, o, ParsedLimit(l), ParsedOffset(o), OK)]
    /\ UNCHANGED <<users, nextUser, books, nextBook, bookings, nextBooking, now, faults, okUpdates, limits, calls>>

(* ------------------------------- Next --------------------------------- *)
\* requests of the booking engine, with the deletes that cascade into bookings
NextBooking ==
    \/ Tick
    \/ CreateUser
    \/ \E u \in UserIds : DeleteUser(u)
    \/ \E v \in CallerVersions : CreateBook(FreshIsbn, v)
    \/ \E b \in BookIds : DeleteBook(b)
    \/ UpdateOverdue
    \/ \E p \in Procs, u \in UserIds, b \in BookIds, d \in DaysInputs :
          HandlerBorrowRejected(p, u, b, d)
    \/ \E p \in Procs, u \in UserIds, b \in BookIds, d \in DaysInputs, f \in BOOLEAN :
          BorrowUser(p, u, b, d, f)
    \/ \E p \in Procs, f \in BOOLEAN : BorrowBook(p, f)
    \/ \E p \in Procs, f \in BOOLEAN : BorrowActive(p, f)
    \/ \E p \in Procs, f \in BOOLEAN : BorrowCreate(p, f)
    \/ \E p \in Procs, c \in UserIds, id \in BookingIds, f \in BOOLEAN :
          ReturnGet(p, c, id, f)
    \/ \E p \in Procs, f \in BOOLEAN : ReturnUpdate(p, f)

(* ---------------------------- rate limiter ---------------------------- *)
\* RateLimiter.Allow(clientIP) at time t on the map ls: the map after the call
\* and the answer.  A client not in the map gets a full bucket and is admitted
\* without a token being taken; otherwise the bucket is refilled by
\* elapsed * rpsLimit, cut at rpsLimit, and a token is taken when one is there.
Allow(ls, c, t) ==
    IF c \notin DOMAIN ls
    THEN [limits |-> [d \in DOMAIN ls \cup {c} |->
                        IF d = c
                        THEN [tokens |-> RpsLimit * TokenScale, lastCheck |-> t]
                        ELSE ls[d]],
          ok |-> TRUE]
    ELSE LET elapsed == t - ls[c].lastCheck
             refilled == ls[c].tokens + (elapsed * RpsLimit * TokenScale) \div TicksPerSecond
             capped == IF refilled > RpsLimit * TokenScale
                       THEN RpsLimit * TokenScale
                       ELSE refilled
         IN IF capped >= TokenScale
            THEN [limits |-> [ls EXCEPT ![c] = [tokens |-> capped - TokenScale,
                                                lastCheck |-> t]],
                  ok |-> TRUE]
            ELSE [limits |-> [ls EXCEPT ![c] = [tokens |-> capped, lastCheck |-> t]],
                  ok |-> FALSE]

\* RateLimitMiddleware for a request of client c: 429 when Allow refuses it,
\* else the request goes on to the next handler.  calls[c] keeps the instant
\* of c's latest request, how many requests of c were admitted at that
\* instant, and the latest answer.
RateLimitMiddleware(c) ==
    /\ LET a == Allow(limits, c, now)
           before == IF c \in DOMAIN calls /\ calls[c].at = now
                     THEN calls[c].admitted
                     ELSE 0
           entry == [at |-> now,
                     admitted |-> before + (IF a.ok THEN 1 ELSE 0),
                     status |-> IF a.ok THEN StatusOK ELSE StatusTooManyRequests]
       IN /\ limits' = a.limits
          /\ calls' = [d \in DOMAIN calls \cup {c} |-> IF d = c THEN entry ELSE calls[d]]
    /\ UNCHANGED <<users, nextUser, books, nextBook, bookings, nextBooking, now, proc, faults, okUpdates>>

NextLimit ==
    \/ Tick
    \/ \E c \in Clients : RateLimitMiddleware(c)

\* the requests that name a booking by id, made by any authenticated caller
NextAccess ==
    \/ Tick
    \/ UpdateOverdue
    \/ CreateUser
    \/ \E u \in UserIds : DeleteUser(u)
    \/ \E v \in CallerVersions : CreateBook(FreshIsbn, v)
    \/ \E p \in Procs, u \in UserIds, b \in BookIds, f \in BOOLEAN :
          BorrowUser(p, u, b, MinBorrowDays, f)
    \/ \E p \in Procs, f \in BOOLEAN : BorrowBook(p, f)
    \/ \E p \in Procs, f \in BOOLEAN : BorrowActive(p, f)
    \/ \E p \in Procs, f \in BOOLEAN : BorrowCreate(p, f)
    \/ \E p \in Procs, c \in Callers, id \in BookingIds, f \in BOOLEAN :
          ReturnGet(p, c, id, f)
    \/ \E p \in Procs, f \in BOOLEAN : ReturnUpdate(p, f)
    \/ \E p \in Procs, c \in Callers, id \in BookingIds, f \in BOOLEAN :
          GetBooking(p, c, id, f)

\* requests of the book catalog
NextBook ==
    \/ \E i \in Isbns, v \in CallerVersions : CreateBook(i, v)
    \/ \E b \in BookIds : DeleteBook(b)
    \/ \E p \in Procs, b \in BookIds, f \in BOOLEAN : GetBook(p, b, f)
    \/ \E p \in Procs, b \in BookIds, i \in Isbns, f \in BOOLEAN : UpdateRead(p, b, i, f)
    \/ \E p \in Procs, f \in BOOLEAN : UpdateWrite(p, f)
    \/ \E p \in Procs, f \in BOOLEAN : UpdateReread(p, f)

\* The booking engine reads of a book only whether it exists and the catalog
\* reads no booking, so the two request families are checked separately.
Spec == Init /\ [][NextBooking]_vars

SpecBook == Init /\ [][NextBook]_vars
\* Return never reads its caller, so the booking engine above draws it from
\* the users; here every authenticated caller makes the by-id requests.
SpecAccess == Init /\ [][NextAccess]_vars

\* the list requests read the store and change nothing
NextList ==
    \/ \E p \in Procs, l \in RawInputs, o \in RawInputs : BookList(p, l, o)
    \/ \E p \in Procs, l \in RawInputs, o \in RawInputs : GetMyBookings(p, l, o)
    \/ \E p \in Procs, l \in RawInputs, o \in RawInputs : ListAllBookings(p, l, o)
    \/ \E p \in Procs, l \in RawInputs, o \in RawInputs : ListUsers(p, l, o)

SpecList == Init /\ [][NextList]_vars

\* the rate limiter reads and writes only its own map and the clock
SpecLimit == Init /\ [][NextLimit]_vars

\* the booking engine when the sweep is invoked again and again
SpecFair == Spec /\ WF_vars(UpdateOverdue)

(* ------------------------------ claims -------------------------------- *)
Updates == {p \in Procs : proc[p].op = "Update" /\ proc[p].pc = "idle" /\ proc[p].ver > 0}

\* p takes a step of its request
Steps(p) == proc'[p] # proc[p]

\* C1: in every reachable state at most one booking with status ACTIVE exists
\* for each (user, book) pair.
C1_OneActivePerPair ==
    \A u \in UserIds, b \in BookIds : Cardinality(GetActive(bookings, u, b)) <= 1

\* C2, on the responses: of two Update calls that read the same version of the
\* same book at most one returns success, and when one does the other returns
\* the conflict error.
C2_Responses ==
    \A p \in Updates, q \in Updates :
        (p # q /\ proc[p].book = proc[q].book /\ proc[p].ver = proc[q].ver
              /\ proc[p].res = OK)
        => proc[q].res = ErrConflict

\* C2, on the conditional write the store accepts: it is applied exactly when
\* the stored version is still the version the call read, it then leaves the
\* version one higher than the version read, and otherwise the call returns
\* the conflict error and the book is unchanged; the re-read of an applied
\* write that finds the book returns success.
C2_Write ==
    \A p \in Procs :
        /\ (proc[p].pc = "u_write" /\ Steps(p) /\ faults' = faults
               /\ ~IsbnTaken(books, proc[p].book, proc[p].isbn))
           => LET b == proc[p].book
              IN IF b \in DOMAIN books /\ books[b].version = proc[p].ver
                 THEN proc'[p].pc = "u_reread" /\ books'[b].version = proc[p].ver + 1
                 ELSE proc'[p].res = ErrConflict /\ books' = books
        /\ (proc[p].pc = "u_reread" /\ Steps(p) /\ faults' = faults
               /\ proc[p].book \in DOMAIN books)
           => proc'[p].res = OK

\* C2: when two Update calls of one book both read the same stored version
\* before either writes, the first conditional write the store accepts is
\* applied and sets the version one higher, the other call finds the version
\* changed and reports Conflict: exactly one succeeds.
C2_ExactlyOneWins == [](C2_Responses) /\ [][C2_Write]_vars

C2_Witness ==
    \E p \in Updates, q \in Updates :
        /\ p # q /\ proc[p].book = proc[q].book /\ proc[p].ver = proc[q].ver
        /\ proc[p].res = OK /\ proc[q].res = ErrConflict
        /\ proc[p].book \in DOMAIN books
        /\ books[proc[p].book].version = proc[p].ver + 1

\* C3: for every stored book with no Update between its write and its
\* return, the stored version is 1 plus the number of Update calls on that
\* book that returned success.
C3_VersionCountsSuccesses ==
    \A b \in DOMAIN books :
        (\A p \in Procs : ~(proc[p].pc = "u_reread" /\ proc[p].book = b))
        => books[b].version = InitialVersion + okUpdates[b]

\* C4: an Update returns success only if the version its caller read (with
\* Get, before the call) was still the stored version when it wrote.
C4_StaleCallerConflicts ==
    \A p \in Updates :
        (proc[p].seen > 0 /\ proc[p].res = OK) => proc[p].ver = proc[p].seen

\* C5: every change of a booking's status is ACTIVE->RETURNED, ACTIVE->OVERDUE
\* or OVERDUE->RETURNED, and ACTIVE->OVERDUE happens only in a step of the
\* sweep (no request moves) on a booking whose due_date is before now.
C5_Step ==
    \A i \in DOMAIN bookings \cap DOMAIN bookings' :
        LET s == bookings[i].status
            t == bookings'[i].status
        IN s # t =>
             /\ <<s, t>> \in {<<ACTIVE, RETURNED>>, <<ACTIVE, OVERDUE>>, <<OVERDUE, RETURNED>>}
             /\ t = OVERDUE => (bookings[i].due < now /\ proc' = proc)

C5_StatusTransitions == [][C5_Step]_vars

C5_Witness ==
    \E i \in DOMAIN bookings, j \in DOMAIN bookings :
        /\ bookings[i].status = OVERDUE
        /\ bookings[j].status = RETURNED
        /\ bookings[j].due < bookings[j].returned

\* C6: once a booking is RETURNED, its status and its returned_at never change
\* again while it exists.
C6_ReturnedImmutable ==
    [][\A i \in DOMAIN bookings \cap DOMAIN bookings' :
          bookings[i].status = RETURNED =>
             /\ bookings'[i].status = RETURNED
             /\ bookings'[i].returned = bookings[i].returned]_vars

\* C7 as stated: no step ever removes a booking.
C7_NeverDeleted == [][DOMAIN bookings \subseteq DOMAIN bookings']_vars

\* C7 amended: a step removes a booking only by deleting its user or its book;
\* Borrow, Return and UpdateOverdue remove none.
C7_DeletedOnlyByCascade ==
    [][\A i \in DOMAIN bookings :
          i \notin DOMAIN bookings' =>
             \/ bookings[i].user \in users \ users'
             \/ bookings[i].book \in DOMAIN books \ DOMAIN books']_vars

C7_Witness ==
    /\ \E i \in 1..(nextBooking - 1) : i \notin DOMAIN bookings
    /\ \E p \in Procs : proc[p].op = "Return" /\ proc[p].res = OK

\* C8: once a store call of a Borrow has failed, that Borrow creates no
\* booking and does not return success.
C8_BorrowPropagatesFailure ==
    [][\A p \in Procs :
          (proc[p].op = "Borrow" /\ proc[p].fault /\ Steps(p))
          => (bookings' = bookings /\ proc'[p].res # OK)]_vars

\* C9: a Return call whose lookup finds the booking already RETURNED ends at
\* once with the already-returned error; it never goes on to write.
C9_Step ==
    \A p \in Procs :
        (proc[p].pc = "idle" /\ Steps(p) /\ proc'[p].op = "Return"
            /\ proc'[p].bid \in DOMAIN bookings
            /\ bookings[proc'[p].bid].status = RETURNED)
        => /\ proc'[p].pc = "idle"
           /\ proc'[p].res # OK
           /\ faults' = faults => proc'[p].res = ErrAlreadyReturned

C9_SecondReturnRejected == [][C9_Step]_vars

C9_Witness ==
    \E p \in Procs :
        /\ proc[p].pc = "idle" /\ proc[p].op = "Return"
        /\ proc[p].res = ErrAlreadyReturned
        /\ proc[p].bid \in DOMAIN bookings
        /\ bookings[proc[p].bid].status = RETURNED

\* C10: a Borrow whose active-booking check runs while an ACTIVE booking exists
\* for its (user, book) pair returns the conflict error and creates no booking.
C10_ActiveBlocksBorrow ==
    [][\A p \in Procs :
          (proc[p].pc = "b_active" /\ Steps(p)
              /\ GetActive(bookings, proc[p].user, proc[p].book) # {})
          => (proc'[p].pc = "idle" /\ proc'[p].res = ErrActiveExists
                 /\ bookings' = bookings)]_vars

\* borrowDays outside 1..30
OutOfRange(d) == d < MinBorrowDays \/ d > MaxBorrowDays

\* C11: a Borrow call of the booking engine whose store calls complete checks
\* user exists, then book exists, then no ACTIVE booking for the pair, then
\* borrowDays in range, and ends with the error of the first check that fails
\* (an unknown user gives the not-found error whatever borrowDays is, an
\* existing ACTIVE booking gives the conflict error also with borrowDays 31).
C11_Step ==
    \A p \in Procs :
        (Steps(p) /\ proc'[p].op = "Borrow" /\ proc'[p].res # ErrValidation
            /\ faults' = faults)
        => LET r == proc'[p]
               active == {i \in DOMAIN bookings :
                            /\ bookings[i].user = r.user
                            /\ bookings[i].book = r.book
                            /\ bookings[i].status = ACTIVE}
           IN CASE proc[p].pc = "idle" ->
                     IF r.user \notin users
                     THEN r.pc = "idle" /\ r.res = ErrUserNotFound
                     ELSE r.pc = "b_book"
                [] proc[p].pc = "b_book" ->
                     IF r.book \notin DOMAIN books
                     THEN r.pc = "idle" /\ r.res = ErrBookNotFound
                     ELSE r.pc = "b_active"
                [] proc[p].pc = "b_active" ->
                     IF active # {}
                     THEN r.pc = "idle" /\ r.res = ErrActiveExists
                     ELSE IF OutOfRange(r.days)
                     THEN r.pc = "idle" /\ r.res = ErrBorrowDays
                     ELSE r.pc = "b_create"
                [] OTHER -> TRUE

C11_CheckOrder == [][C11_Step]_vars

C11_Witness ==
    \E p \in Procs, q \in Procs :
        /\ proc[p].pc = "idle" /\ proc[p].op = "Borrow"
        /\ proc[p].res = ErrUserNotFound /\ proc[p].days = 0
        /\ proc[q].pc = "idle" /\ proc[q].op = "Borrow"
        /\ proc[q].res = ErrActiveExists /\ proc[q].days = 31

\* C12: a Borrow with borrowDays below 1 or above 30 never creates a booking
\* and never succeeds (the value is not clamped): the service never reaches
\* its insert with it, and the handler answers it with the validation error
\* in one step in which no store call is made.
C12_Step ==
    \A p \in Procs :
        (Steps(p) /\ proc'[p].op = "Borrow" /\ OutOfRange(proc'[p].days))
        => /\ bookings' = bookings
           /\ proc'[p].pc # "b_create"
           /\ proc'[p].pc = "idle" => proc'[p].res # OK
           /\ proc'[p].res = ErrValidation
                 => /\ proc[p].pc = "idle"
                    /\ UNCHANGED <<users, books, nextBooking, faults>>

C12_OutOfRangeRejected == [][C12_Step]_vars

C12_Witness ==
    \E p \in Procs, q \in Procs :
        /\ proc[p].pc = "idle" /\ proc[p].op = "Borrow"
        /\ proc[p].res = ErrValidation /\ proc[p].days = 31
        /\ proc[q].pc = "idle" /\ proc[q].op = "Borrow"
        /\ proc[q].res = ErrBorrowDays /\ proc[q].days = 0

\* C13: the booking a Borrow with borrowDays = d creates has
\* due_date = borrowed_at + d exactly, with 1 <= d <= 30, also when the clock
\* advances while the Borrow runs.
C13_DueExact ==
    [][\A p \in Procs :
          (proc[p].pc = "b_create" /\ Steps(p) /\ DOMAIN bookings' # DOMAIN bookings)
          => \A i \in DOMAIN bookings' \ DOMAIN bookings :
                /\ bookings'[i].due = bookings'[i].borrowed + proc[p].days
                /\ ~OutOfRange(proc[p].days)]_vars

\* C14: the step in which a Borrow succeeds adds exactly one booking, with
\* status ACTIVE, returned_at unset and the requested user and book, and
\* changes no other booking and no book; every other step of a Borrow, and so
\* every Borrow that fails, leaves the bookings and the books unchanged.
C14_Step ==
    \A p \in Procs :
        (Steps(p) /\ proc'[p].op = "Borrow")
        => IF proc'[p].pc = "idle" /\ proc'[p].res = OK
           THEN /\ \E i \in BookingIds \ DOMAIN bookings :
                      /\ DOMAIN bookings' = DOMAIN bookings \cup {i}
                      /\ bookings'[i].status = ACTIVE
                      /\ bookings'[i].returned = NoTime
                      /\ bookings'[i].user = proc'[p].user
                      /\ bookings'[i].book = proc'[p].book
                /\ \A j \in DOMAIN bookings : bookings'[j] = bookings[j]
                /\ books' = books
           ELSE bookings' = bookings /\ books' = books

C14_BorrowFrame == [][C14_Step]_vars

C14_Witness ==
    \E p \in Procs, q \in Procs :
        /\ proc[p].pc = "idle" /\ proc[p].op = "Borrow" /\ proc[p].res = OK
        /\ proc[q].pc = "idle" /\ proc[q].op = "Borrow" /\ proc[q].res = ErrBookNotFound
        /\ \E i \in DOMAIN bookings :
              bookings[i].user = proc[p].user /\ bookings[i].status = OVERDUE

\* C15: a Return whose store calls complete goes on to its write whenever the
\* booking it finds is ACTIVE or OVERDUE, whatever now and due_date are, and
\* its write on a booking that still exists succeeds and leaves the stored
\* booking RETURNED with returned_at set to the time the call read.
C15_Step ==
    \A p \in Procs :
        (Steps(p) /\ faults' = faults)
        => /\ (proc[p].pc = "idle" /\ proc'[p].op = "Return"
                  /\ proc'[p].bid \in DOMAIN bookings
                  /\ bookings[proc'[p].bid].status \in {ACTIVE, OVERDUE})
              => proc'[p].pc = "r_update"
           /\ (proc[p].pc = "r_update" /\ proc[p].bid \in DOMAIN bookings)
              => /\ proc'[p].pc = "idle" /\ proc'[p].res = OK
                 /\ bookings'[proc[p].bid].status = RETURNED
                 /\ bookings'[proc[p].bid].returned = proc[p].at
                 /\ proc[p].at # NoTime

C15_ReturnSucceeds == [][C15_Step]_vars

C15_Witness ==
    \E p \in Procs :
        /\ proc[p].pc = "idle" /\ proc[p].op = "Return" /\ proc[p].res = OK
        /\ proc[p].bid \in DOMAIN bookings
        /\ bookings[proc[p].bid].status = RETURNED
        /\ bookings[proc[p].bid].due < bookings[proc[p].bid].returned

\* C16: a step of a Return changes a booking only if it is the step in which
\* the Return succeeds, and then it changes only the booking the call names;
\* a Return that ends with an error has changed no booking.
C16_Step ==
    \A p \in Procs :
        (Steps(p) /\ proc'[p].op = "Return")
        => IF proc'[p].pc = "idle" /\ proc'[p].res = OK
           THEN /\ DOMAIN bookings' = DOMAIN bookings
                /\ \A i \in DOMAIN bookings :
                      i # proc'[p].bid => bookings'[i] = bookings[i]
           ELSE bookings' = bookings

C16_ReturnFrame == [][C16_Step]_vars

C16_Witness ==
    \E p \in Procs, q \in Procs, i \in DOMAIN bookings :
        /\ proc[p].pc = "idle" /\ proc[p].op = "Return" /\ proc[p].res = OK
        /\ proc[p].bid \in DOMAIN bookings /\ proc[p].bid # i
        /\ bookings[proc[p].bid].status = RETURNED
        /\ bookings[i].status = ACTIVE
        /\ proc[q].pc = "idle" /\ proc[q].op = "Return"
        /\ proc[q].res = ErrAlreadyReturned

\* C17, on the result of one sweep at the current time: every booking that is
\* ACTIVE with due_date < now is OVERDUE afterwards and otherwise as before,
\* and every other booking (ACTIVE with due_date >= now, OVERDUE, RETURNED)
\* is exactly as before.
C17_Result ==
    LET m == MarkOverdue(bookings, now)
    IN /\ DOMAIN m = DOMAIN bookings
       /\ \A i \in DOMAIN bookings :
             IF bookings[i].status = ACTIVE /\ bookings[i].due < now
             THEN m[i] = [bookings[i] EXCEPT !.status = OVERDUE]
             ELSE m[i] = bookings[i]

\* C17, on the step: a step that moves some booking to OVERDUE moves every
\* ACTIVE booking with due_date < now in that same step and changes nothing
\* else.
C17_Step ==
    (\E i \in DOMAIN bookings \cap DOMAIN bookings' :
        bookings[i].status # OVERDUE /\ bookings'[i].status = OVERDUE)
    => /\ DOMAIN bookings' = DOMAIN bookings
       /\ \A j \in DOMAIN bookings :
             bookings'[j] = IF bookings[j].status = ACTIVE /\ bookings[j].due < now
                            THEN [bookings[j] EXCEPT !.status = OVERDUE]
                            ELSE bookings[j]
       /\ UNCHANGED <<users, books, proc, now>>

\* C17: one UpdateOverdue moves every ACTIVE booking with due_date < now to
\* OVERDUE in a single atomic step and leaves every other booking unchanged.
C17_SweepExact == [](C17_Result) /\ [][C17_Step]_vars

C17_Witness ==
    \E i \in DOMAIN bookings, j \in DOMAIN bookings :
        /\ bookings[i].status = OVERDUE
        /\ bookings[j].status = RETURNED
        /\ bookings[j].due < now
        /\ bookings[j].returned # NoTime
        /\ MarkOverdue(bookings, now) = bookings

\* C18: UpdateOverdue run twice in a row changes nothing the second time: the
\* sweep of the swept bookings is the swept bookings.
C18_SweepIdempotent ==
    MarkOverdue(MarkOverdue(bookings, now), now) = MarkOverdue(bookings, now)

C18_Witness ==
    \E i \in DOMAIN bookings, j \in DOMAIN bookings :
        /\ bookings[i].status = OVERDUE
        /\ bookings[j].status = ACTIVE /\ bookings[j].due >= now
        /\ MarkOverdue(bookings, now) = bookings

\* C19: a Borrow or Return that ends because one of its store calls failed
\* (deadline exceeded) reports a failure that is neither a not-found error nor
\* the conflict error.
C19_TimeoutDistinct ==
    [][\A p \in Procs :
          (Steps(p) /\ faults' > faults /\ proc'[p].pc = "idle")
          => proc'[p].res \notin {ErrUserNotFound, ErrBookNotFound,
                                  ErrBookingNotFound, ErrConflict}]_vars

\* C20: every Update the repository ends with its conflict report reaches the
\* caller of the book service as ErrConflict and the HTTP caller as 409.
C20_ConflictKind ==
    \A p \in Procs :
        (proc[p].pc = "idle" /\ proc[p].op = "Update" /\ proc[p].res = ErrConflict)
        => /\ BookServiceUpdate(proc[p].res) = ServiceErrConflict
           /\ BookHandlerUpdate(BookServiceUpdate(proc[p].res)) = StatusConflict

\* C21: a book Update whose read finds no row for its id ends at once with the
\* not-found error, not the conflict error, and changes no book.
C21_Step ==
    \A p \in Procs :
        (Steps(p) /\ proc[p].pc \in {"idle", "got"} /\ proc'[p].op = "Update"
            /\ proc'[p].book \notin DOMAIN books)
        => /\ proc'[p].pc = "idle"
           /\ proc'[p].res = ErrBookNotFound
           /\ books' = books

C22_Step ==
    \A p \in Procs :
        Steps(p)
        => /\ proc[p].pc = "u_write"
                 => IF books' # books
                    THEN proc'[p].pc = "u_reread"
                    ELSE proc'[p].pc = "idle" /\ proc'[p].res = ErrConflict
           /\ proc[p].pc = "u_reread" => (proc'[p].pc = "idle" /\ books' = books)
           /\ proc[p].pc = "b_create"
                 => /\ proc'[p].pc = "idle"
                    /\ bookings' = bookings => proc'[p].res = ErrStore
           /\ proc[p].pc = "r_update" => proc'[p].pc = "idle"

C23_DeleteUnconditional ==
    \A b \in DOMAIN books : ENABLED DeleteBook(b)

C23_Witness ==
    \E p \in Procs :
        /\ proc[p].pc = "u_write"
        /\ proc[p].ver > InitialVersion
        /\ proc[p].book \notin DOMAIN books

\* C24: Delete of a book id answers 204 when the book exists and 500 when it
\* does not (the DELETE statement itself completing).
C24_DeleteMissingFails ==
    \A b \in BookIds :
        BookHandlerDelete(BookRepoDelete(books, b, FALSE))
            = IF b \in DOMAIN books THEN StatusNoContent ELSE StatusInternalServerError

ListOps == {"BookList", "GetMyBookings", "ListAllBookings", "ListUsers"}

C26_OneReturnSucceeds ==
    \A p \in Procs, q \in Procs :
        (p # q /\ proc[p].pc = "idle" /\ proc[q].pc = "idle"
            /\ proc[p].op = "Return" /\ proc[q].op = "Return"
            /\ proc[p].bid = proc[q].bid)
        => ~(proc[p].res = OK /\ proc[q].res = OK)

\* C27: an Update whose write was applied is always reported as success (so an
\* Update that returns an error has left the stored book as it was).
C27_AppliedWriteSucceeds ==
    [][\A p \in Procs :
          (proc[p].pc = "u_reread" /\ Steps(p)) => proc'[p].res = OK]_vars

\* C28: only ACTIVE bookings block a Borrow: a Borrow whose store calls
\* complete and whose pair has only OVERDUE or RETURNED bookings passes the
\* active-booking check, and with borrowDays in range and its user and book
\* still stored it succeeds and adds an ACTIVE booking.
C28_Step ==
    \A p \in Procs :
        (Steps(p) /\ faults' = faults)
        => /\ (proc[p].pc = "b_active"
                  /\ \A i \in DOMAIN bookings :
                        (bookings[i].user = proc[p].user /\ bookings[i].book = proc[p].book)
                        => bookings[i].status \in {OVERDUE, RETURNED})
              => IF OutOfRange(proc[p].days)
                 THEN proc'[p].res = ErrBorrowDays
                 ELSE proc'[p].pc = "b_create"
           /\ (proc[p].pc = "b_create" /\ proc[p].user \in users
                  /\ proc[p].book \in DOMAIN books)
              => /\ proc'[p].res = OK
                 /\ \E i \in DOMAIN bookings' \ DOMAIN bookings :
                       bookings'[i].status = ACTIVE

C28_OnlyActiveBlocks == [][C28_Step]_vars

C28_Witness ==
    \E i \in DOMAIN bookings, j \in DOMAIN bookings, p \in Procs :
        /\ bookings[i].user = bookings[j].user /\ bookings[i].book = bookings[j].book
        /\ bookings[i].status = OVERDUE
        /\ bookings[j].status = ACTIVE
        /\ proc[p].pc = "idle" /\ proc[p].op = "Borrow" /\ proc[p].res = OK

\* C29: in every reachable state a booking has returned_at set if and only if
\* its status is RETURNED.
C29_ReturnedAtIffReturned ==
    \A i \in DOMAIN bookings :
        (bookings[i].returned # NoTime) <=> (bookings[i].status = RETURNED)

C29_Witness ==
    \E i \in DOMAIN bookings, j \in DOMAIN bookings :
        /\ bookings[i].status = RETURNED
        /\ bookings[i].returned >= bookings[i].borrowed
        /\ bookings[j].status = OVERDUE
        /\ bookings[j].returned = NoTime

C31_Step ==
    \A p \in Procs :
        (Steps(p) /\ proc'[p].op = "GetBooking")
        => LET id == proc'[p].bid
               c == proc'[p].user
           IN /\ bookings' = bookings
              /\ proc'[p].pc = "idle"
              /\ proc'[p].res = OK
                 => /\ id \in DOMAIN bookings
                    /\ bookings[id].user = c
                    /\ proc'[p].book = bookings[id].book
              /\ proc'[p].res # OK => proc'[p].book = 0
              /\ faults' = faults
                 => proc'[p].res = IF id \notin DOMAIN bookings THEN MsgBookingNotFound
                                   ELSE IF bookings[id].user # c THEN ErrForbidden
                                   ELSE OK

C31_OwnerOnly == [][C31_Step]_vars

C31_Witness ==
    \E p \in Procs, q \in Procs :
        /\ proc[p].pc = "idle" /\ proc[p].op = "GetBooking"
        /\ proc[p].res = ErrForbidden /\ proc[p].book = 0
        /\ proc[p].bid \in DOMAIN bookings
        /\ bookings[proc[p].bid].user # proc[p].user
        /\ proc[q].pc = "idle" /\ proc[q].op = "GetBooking"
        /\ proc[q].res = MsgBookingNotFound
        /\ proc[q].bid \notin DOMAIN bookings

\* C32: what a Return does is fixed by the booking it names and never by its
\* caller: the first step ends with "booking not found" when the lookup fails
\* or finds no row, with "already returned" when the row is RETURNED, and
\* otherwise goes on to the write, for the owner and for any other caller
\* alike; the write, when it completes on an existing row, makes the booking
\* RETURNED and answers OK.
C32_Step ==
    \A p \in Procs :
        (Steps(p) /\ proc'[p].op = "Return")
        => LET id == proc'[p].bid
           IN /\ proc[p].pc = "idle"
                 => IF faults' # faults \/ id \notin DOMAIN bookings
                    THEN proc'[p].pc = "idle" /\ proc'[p].res = ErrBookingNotFound
                    ELSE IF bookings[id].status = RETURNED
                    THEN proc'[p].pc = "idle" /\ proc'[p].res = ErrAlreadyReturned
                    ELSE proc'[p].pc = "r_update"
              /\ (proc[p].pc = "r_update" /\ faults' = faults /\ id \in DOMAIN bookings)
                 => /\ proc'[p].pc = "idle" /\ proc'[p].res = OK
                    /\ proc'[p].user = proc[p].user
                    /\ bookings'[id].status = RETURNED
                    /\ bookings'[id].user = bookings[id].user

C32_CallerBlind == [][C32_Step]_vars

C32_Witness ==
    \E p \in Procs :
        /\ proc[p].pc = "idle" /\ proc[p].op = "Return" /\ proc[p].res = OK
        /\ proc[p].bid \in DOMAIN bookings
        /\ bookings[proc[p].bid].user # proc[p].user
        /\ bookings[proc[p].bid].status = RETURNED
        /\ bookings[proc[p].bid].due < bookings[proc[p].bid].returned

\* C33: requests of one client made at one instant are admitted at most
\* RpsLimit times, and one made after RpsLimit admissions at that instant is
\* refused; every bucket holds between 0 and RpsLimit tokens; a request of
\* one client leaves the buckets of the others as they were.
C33_Step ==
    \A c \in Clients :
        (c \in DOMAIN calls' /\ (c \notin DOMAIN calls \/ calls'[c] # calls[c]))
        => /\ \A d \in DOMAIN limits \ {c} : limits'[d] = limits[d]
           /\ (c \in DOMAIN calls /\ calls[c].at = now /\ calls[c].admitted >= RpsLimit)
              => calls'[c].status = StatusTooManyRequests

C33_Bounded ==
    /\ \A c \in DOMAIN calls : calls[c].admitted <= RpsLimit
    /\ \A c \in DOMAIN limits :
          limits[c].tokens >= 0 /\ limits[c].tokens <= RpsLimit * TokenScale

C33_AtMostN == [](C33_Bounded) /\ [][C33_Step]_vars

====
